---------------------------- MODULE Spec2Model ----------------------------
(***************************************************************************)
(* A model of the two demo panels of the repository:                       *)
(*                                                                         *)
(*   - ThrottleDebounceDemo (src/src/features/throthle-debounce/index.tsx) *)
(*     three boxes that record pointer-move positions: unthrottled,        *)
(*     throttled at 200 ms and debounced at 200 ms;                        *)
(*   - CloneMethodsComparison                                              *)
(*     (src/src/features/deep-clone-comparison/index.tsx): a test-case     *)
(*     selector, a clone attempt per method and a benchmark.               *)
(*                                                                         *)
(* Time is in milliseconds.  Strings that are Korean in the source are     *)
(* written in romanised form, since the module is ASCII:                   *)
(*   "bogsa silpae"    is the text of line 210 (copy failed),              *)
(*   "cheugjeong silpae" is the text of line 218 (measurement failed),     *)
(*   "seonggong"       is the text of line 199 (success).                  *)
(***************************************************************************)
EXTENDS Integers, Sequences, FiniteSets, TLC

VARIABLES
    \* ---- ThrottleDebounceDemo ----
    now,                \* Date.now(), relative to the start of the observation
    mousePosition,      \* useState, line 7
    normalEvents,       \* useState, line 8
    throttledEvents,    \* useState, line 9
    debouncedEvents,    \* useState, line 10
    thLastCallTime,     \* closure of throttle(...): time of the last invocation
    debPendingArgs,     \* closure of debounce(...): arguments of the last call
    debTimer,           \* closure of debounce(...): when its timeout is due
    moves,              \* number of pointer-move events delivered to each box
    lastEvent,          \* the pointer-move event delivered last, and where
    debLastCall,        \* the last pointer-move in the debounced box, and when
    \* ---- CloneMethodsComparison ----
    selectedCase,       \* useState, line 180
    performanceResults, \* useState, line 181
    view,               \* what the component rendered from the two above
    lastClick,          \* the button clicked last
    measuredCase        \* the test case the last benchmark ran on

pointerVars == <<now, mousePosition, normalEvents, throttledEvents,
                 debouncedEvents, thLastCallTime, debPendingArgs, debTimer,
                 moves, lastEvent, debLastCall>>
cloneVars == <<selectedCase, performanceResults, view, lastClick, measuredCase>>
vars == <<pointerVars, cloneVars>>

\* null, for a state that holds an object or null.
Null == [null |-> TRUE]

(***************************************************************************)
(*                      CloneMethodsComparison                             *)
(***************************************************************************)

\* A value is modelled by the kinds of its properties: what decides whether a
\* clone strategy can represent it.  "circular" is a reference back to the
\* object itself; "object" is a nested plain object.
testCases ==
    [simple   |-> [title |-> "simple object",
                   data  |-> [name |-> "string", age |-> "number"]],
     date     |-> [title |-> "Date object",
                   data  |-> [date |-> "Date", simple |-> "string"]],
     mapSet   |-> [title |-> "Map and Set",
                   data  |-> [map |-> "Map", set |-> "Set"]],
     circular |-> [title |-> "circular reference",
                   data  |-> [name |-> "string", self |-> "circular"]],
     function |-> [title |-> "with functions",
                   data  |-> [method |-> "function", arrow |-> "function"]],
     special  |-> [title |-> "special values",
                   data  |-> [nan |-> "NaN", infinity |-> "Infinity",
                              undefined |-> "undefined", null |-> "null",
                              symbol |-> "symbol"]],
     large    |-> [title |-> "large data",
                   data  |-> [key0 |-> "object", key9999 |-> "object"]]]

TestCaseKeys == DOMAIN testCases

methods ==
    << [id |-> "structured", name |-> "structuredClone"],
       [id |-> "json",       name |-> "JSON.parse/stringify"],
       [id |-> "es-toolkit", name |-> "es-toolkit"],
       [id |-> "lodash",     name |-> "lodash"] >>

MethodIds == {methods[i].id : i \in 1..Len(methods)}

\* The outcome of a call: it returns a value or it throws one.
Return(v) == [kind |-> "return", value |-> v]
Throw(e)  == [kind |-> "throw", error |-> e]

Kinds(data) == {data[k] : k \in DOMAIN data}

\* structuredClone(data): the structured clone algorithm refuses functions and
\* symbols with a DataCloneError (a DOMException, which is an Error).
structuredClone(data) ==
    IF Kinds(data) \cap {"function", "symbol"} # {}
    THEN Throw([isError |-> TRUE, message |-> "DataCloneError: could not be cloned"])
    ELSE Return(data)

\* JSON.stringify(data): throws a TypeError on a cycle; drops properties whose
\* value is undefined, a function or a symbol; writes NaN and Infinity as null,
\* a Date as its ISO string, a Map or a Set as {}.
JSONKind(kind) ==
    CASE kind \in {"NaN", "Infinity"} -> "null"
      [] kind = "Date"                -> "string"
      [] kind \in {"Map", "Set"}      -> "object"
      [] OTHER                        -> kind

JSONRoundTrip(data) ==
    IF "circular" \in Kinds(data)
    THEN Throw([isError |-> TRUE,
                message |-> "TypeError: Converting circular structure to JSON"])
    ELSE Return([k \in {j \in DOMAIN data :
                          data[j] \notin {"undefined", "function", "symbol"}}
                   |-> JSONKind(data[k])])

\* cloneDeep of es-toolkit and of lodash: every kind of the test cases is
\* copied or kept, and nothing is thrown.
cloneDeep(data) == Return(data)

lodashCloneDeep(data) == Return(data)

\* tryClone with the test of line 144 inverted.
tryCloneInvertedInstanceof(data, method) ==
    LET attempt ==
            CASE method = "structured" -> structuredClone(data)
              [] method = "json"       -> JSONRoundTrip(data)
              [] method = "es-toolkit" -> cloneDeep(data)
              [] method = "lodash"     -> lodashCloneDeep(data)
    IN  IF attempt.kind = "return"
        THEN Return([success |-> TRUE, result |-> attempt.value])
        ELSE Return([success |-> FALSE,
                     error   |-> IF attempt.error.isError
                                 THEN "Unknown error"
                                 ELSE attempt.error.message])

\* tryClone, lines 121-147.  A throw inside the try block is caught; the
\* function itself always returns.
tryClone(data, method) ==
    LET attempt ==
            CASE method = "structured" -> structuredClone(data)
              [] method = "json"       -> JSONRoundTrip(data)
              [] method = "es-toolkit" -> cloneDeep(data)
              [] method = "lodash"     -> lodashCloneDeep(data)
    IN  IF method \notin {"structured", "json", "es-toolkit", "lodash"}
        THEN Return([success |-> FALSE, error |-> "Unknown method"])
        ELSE IF attempt.kind = "return"
        THEN Return([success |-> TRUE, result |-> attempt.value])
        ELSE Return([success |-> FALSE,
                     error   |-> IF attempt.error.isError
                                 THEN attempt.error.message
                                 ELSE "Unknown error"])

\* safeStringify, lines 101-119: the text shown for a value.  The replacer
\* sees a Date already turned into its ISO string by toJSON; a symbol is
\* returned as it is and JSON.stringify then leaves the property out;
\* Infinity is returned as it is and written as null.
StringifyKind(kind) ==
    CASE kind = "circular"  -> "[Circular Reference]"
      [] kind = "Map"       -> "Map(n)"
      [] kind = "Set"       -> "Set(n)"
      [] kind = "function"  -> "Function: name"
      [] kind = "Date"      -> "iso string"
      [] kind = "undefined" -> "undefined"
      [] kind = "NaN"       -> "NaN"
      [] kind = "Infinity"  -> "null"
      [] OTHER              -> kind

safeStringify(obj) ==
    [k \in {j \in DOMAIN obj : obj[j] # "symbol"} |-> StringifyKind(obj[k])]

\* The number of timed iterations, line 152.
Iterations == 100

\* performance.now() differences are inputs: a benchmark run draws, for every
\* method, the duration of one clone attempt (microseconds): the shortest
\* that is measured, or the longest.
MaxDuration == 2
Durations == {1, MaxDuration}
Timings == [MethodIds -> Durations]

\* end - start of iteration i, line 161.
Duration(timing, method, i) == timing[method]

\* times.reduce((a, b) => a + b, 0) of line 167, summed by halves.
RECURSIVE SumRange(_, _, _)
SumRange(s, lo, hi) ==
    IF lo > hi THEN 0
    ELSE IF lo = hi THEN s[lo]
    ELSE LET mid == (lo + hi) \div 2
         IN  SumRange(s, lo, mid) + SumRange(s, mid + 1, hi)

Sum(s) == SumRange(s, 1, Len(s))

SeqMin(s) == CHOOSE m \in {s[i] : i \in DOMAIN s} : \A i \in DOMAIN s : m <= s[i]
SeqMax(s) == CHOOSE m \in {s[i] : i \in DOMAIN s} : \A i \in DOMAIN s : m >= s[i]

\* The loop running to i <= iterations, and not stopping at a throw.
MeasureLoopOneMore(data, method, iterations, timing) ==
    [done  |-> TRUE,
     times |-> [i \in 1..(iterations + 1) |-> Duration(timing, method, i - 1)]]

\* The loop of measurePerformance, lines 156-165: the iterations 0 ..
\* iterations - 1 in order.  The first one in which tryClone throws ends the
\* loop with {success: false} (line 163); every other one pushes its duration.
MeasureLoop(data, method, iterations, timing) ==
    LET throwing == {i \in 0..(iterations - 1) :
                        tryClone(data, method).kind = "throw"}
    IN  IF throwing # {}
        THEN [done |-> FALSE, times |-> <<>>]
        ELSE [done  |-> TRUE,
              times |-> [i \in 1..iterations |-> Duration(timing, method, i - 1)]]

\* measurePerformance, lines 149-176.  The average is kept as the fraction
\* sum / count.
measurePerformance(data, method, iterations, timing) ==
    LET Result(loop) ==
            IF ~loop.done
            THEN [success |-> FALSE]
            ELSE [success |-> TRUE,
                  average |-> [num |-> Sum(loop.times), den |-> Len(loop.times)],
                  min     |-> SeqMin(loop.times),
                  max     |-> SeqMax(loop.times),
                  samples |-> loop.times]
    IN  CHOOSE r \in {Result(loop) :
                        loop \in {MeasureLoop(data, method, iterations, timing)}} : TRUE

\* renderResult, lines 192-214: the panel of one method.
renderResult(case, methodId) ==
    LET call == tryClone(testCases[case].data, methodId)
    IN  IF call.kind = "throw"
        THEN [crashed |-> TRUE]       \* nothing in the component catches it
        ELSE IF call.value.success
        THEN [crashed |-> FALSE, ok |-> TRUE, label |-> "seonggong",
              pre |-> safeStringify(call.value.result)]
        ELSE [crashed |-> FALSE, ok |-> FALSE, label |-> call.value.error,
              pre |-> [text |-> "bogsa silpae"]]

\* renderPerformanceResult, lines 216-246: the benchmark panel of one method.
renderPerformanceResult(results, methodId) ==
    IF results = Null \/ ~results[methodId].success
    THEN [failed |-> TRUE, text |-> "cheugjeong silpae"]
    ELSE [failed  |-> FALSE,
          average |-> results[methodId].average,
          min     |-> results[methodId].min,
          max     |-> results[methodId].max]

\* The return of CloneMethodsComparison, lines 248-321: the selected button
\* (262), the sample data (287), the benchmark panel when there are results
\* (291-306) and one clone panel per method (308-318).
Render(case, results) ==
    [selected    |-> case,
     sample      |-> safeStringify(testCases[case].data),
     performance |-> IF results = Null THEN Null
                     ELSE [m \in MethodIds |-> renderPerformanceResult(results, m)],
     results     |-> [m \in MethodIds |-> renderResult(case, m)]]

\* The onClick without line 258.
SelectCaseKeepsSelection(key) ==
    /\ UNCHANGED selectedCase
    /\ performanceResults' = Null
    /\ view' = Render(selectedCase', performanceResults')
    /\ lastClick' = [op |-> "select", key |-> key]
    /\ UNCHANGED measuredCase
    /\ UNCHANGED pointerVars

\* The onClick without line 259.
SelectCaseKeepsResults(key) ==
    /\ selectedCase' = key
    /\ UNCHANGED performanceResults
    /\ view' = Render(selectedCase', performanceResults')
    /\ lastClick' = [op |-> "select", key |-> key]
    /\ UNCHANGED measuredCase
    /\ UNCHANGED pointerVars

\* The onClick of a test-case button, lines 257-260.
SelectCase(key) ==
    /\ selectedCase' = key
    /\ performanceResults' = Null
    /\ view' = Render(selectedCase', performanceResults')
    /\ lastClick' = [op |-> "select", key |-> key]
    /\ UNCHANGED measuredCase
    /\ UNCHANGED pointerVars

\* methods.reduce of runPerformanceTest, lines 184-187, over methods[i..].
RECURSIVE ReduceMethods(_, _, _, _)
ReduceMethods(acc, i, case, timings) ==
    IF i > Len(methods) THEN acc
    ELSE ReduceMethods(
            [m \in DOMAIN acc \cup {methods[i].id} |->
                IF m = methods[i].id
                THEN measurePerformance(testCases[case].data, methods[i].id,
                                        Iterations, timings)
                ELSE acc[m]],
            i + 1, case, timings)

\* runPerformanceTest, lines 183-190; its closure holds the current
\* selectedCase (the dependency list of line 190).
runPerformanceTest(timings) ==
    LET results == ReduceMethods(<<>>, 1, selectedCase, timings)
    IN  /\ performanceResults' = results
        /\ UNCHANGED selectedCase
        /\ measuredCase' = selectedCase
        /\ view' = Render(selectedCase', performanceResults')
        /\ lastClick' = [op |-> "run", key |-> selectedCase]
        /\ UNCHANGED pointerVars

InitClone ==
    /\ selectedCase = "simple"
    /\ performanceResults = Null
    /\ view = Render("simple", Null)
    /\ lastClick = [op |-> "none", key |-> "simple"]
    /\ measuredCase = "none"

(***************************************************************************)
(*                        ThrottleDebounceDemo                             *)
(***************************************************************************)

Boxes == {"normal", "throttled", "debounced"}

\* e.currentTarget.getBoundingClientRect() of each box (lines 69, 85, 101):
\* where the layout put it.
BoxRect ==
    [normal    |-> [left |-> 24,  top |-> 96],
     throttled |-> [left |-> 320, top |-> 96],
     debounced |-> [left |-> 616, top |-> 96]]

\* The pointer positions inside a box that the events are drawn from.
Points == {<<0, 0>>, <<3, 5>>}

\* The mousemove events a box can receive.
PointerEvents(box) ==
    {[clientX |-> BoxRect[box].left + p[1], clientY |-> BoxRect[box].top + p[2]]
        : p \in Points}

\* The bounds of the exploration: the clock stops at MaxTime, and at most
\* MaxMoves pointer-move events are delivered.
MaxTime == 600
MaxMoves == 3
Steps == {100, 200}

\* The intervals of lines 26 and 36.
ThrottleMs == 200
DebounceMs == 200

\* prev.slice(-n), n > 0.
SliceFromEnd(prev, n) ==
    IF Len(prev) <= n THEN prev ELSE SubSeq(prev, Len(prev) - n + 1, Len(prev))

\* The state updater of line 17.
normalCallback(prev, e, rect, t) ==
    Append(SliceFromEnd(prev, 29),
           [x |-> e.clientX - rect.left, y |-> e.clientY - rect.top, time |-> t])

\* The updater of line 25 with slice(-30).
throttledCallbackKeeps30(prev, e, rect, t) ==
    Append(SliceFromEnd(prev, 30),
           [x |-> e.clientX - rect.left, y |-> e.clientY - rect.top, time |-> t])

\* The function given to throttle, lines 22-26, as the list it sets.
throttledCallback(prev, e, rect, t) ==
    Append(SliceFromEnd(prev, 29),
           [x |-> e.clientX - rect.left, y |-> e.clientY - rect.top, time |-> t])

\* The function of lines 32-36 without the offsets of the box.
debouncedCallbackAbsolute(prev, e, rect, t) ==
    Append(SliceFromEnd(prev, 29),
           [x |-> e.clientX, y |-> e.clientY, time |-> t])

\* The function given to debounce, lines 32-36, as the list it sets.
debouncedCallback(prev, e, rect, t) ==
    Append(SliceFromEnd(prev, 29),
           [x |-> e.clientX - rect.left, y |-> e.clientY - rect.top, time |-> t])

\* handleMouseMove without the offsets of the box.
handleMouseMoveAbsolute(e, rect) ==
    /\ mousePosition' = [x |-> e.clientX, y |-> e.clientY]
    /\ normalEvents' = Append(SliceFromEnd(normalEvents, 29),
                              [x |-> e.clientX, y |-> e.clientY, time |-> now])
    /\ UNCHANGED <<throttledEvents, debouncedEvents, thLastCallTime,
                   debPendingArgs, debTimer>>

\* handleMouseMove, lines 13-18.
handleMouseMove(e, rect) ==
    /\ mousePosition' = [x |-> e.clientX - rect.left, y |-> e.clientY - rect.top]
    /\ normalEvents' = normalCallback(normalEvents, e, rect, now)
    /\ UNCHANGED <<throttledEvents, debouncedEvents, thLastCallTime,
                   debPendingArgs, debTimer>>

\* throttle of es-toolkit: whether a call at time t, the last invocation
\* having been at lastCall (<<>>: none yet), invokes the function.
ThrottleInvokes(lastCall, t, wait) ==
    lastCall = <<>> \/ t - lastCall[1] >= wait

\* handleThrottledMove with the function of lines 22-26 not wrapped.
handleThrottledMoveUnthrottled(e, rect) ==
    /\ thLastCallTime' = <<now>>
    /\ throttledEvents' = throttledCallback(throttledEvents, e, rect, now)
    /\ UNCHANGED <<mousePosition, normalEvents, debouncedEvents,
                   debPendingArgs, debTimer>>

\* handleThrottledMove, lines 21-28: the throttled function, called.
handleThrottledMove(e, rect) ==
    LET invoke == ThrottleInvokes(thLastCallTime, now, ThrottleMs)
    IN  /\ thLastCallTime' = IF invoke THEN <<now>> ELSE thLastCallTime
        /\ throttledEvents' =
              IF invoke THEN throttledCallback(throttledEvents, e, rect, now)
              ELSE throttledEvents
        /\ UNCHANGED <<mousePosition, normalEvents, debouncedEvents,
                       debPendingArgs, debTimer>>

\* debounce of es-toolkit: a call at time t keeps its arguments and
\* (re)starts the timeout, due wait later.
DebounceSchedule(t, wait) == <<t + wait>>

\* handleDebouncedMove invoking the function at the call as well.
handleDebouncedMoveLeading(e, rect) ==
    /\ debPendingArgs' = <<[e |-> e, rect |-> rect]>>
    /\ debTimer' = DebounceSchedule(now, DebounceMs)
    /\ debouncedEvents' = debouncedCallback(debouncedEvents, e, rect, now)
    /\ UNCHANGED <<mousePosition, normalEvents, throttledEvents, thLastCallTime>>

\* handleDebouncedMove, lines 31-38: the debounced function, called.
handleDebouncedMove(e, rect) ==
    /\ debPendingArgs' = <<[e |-> e, rect |-> rect]>>
    /\ debTimer' = DebounceSchedule(now, DebounceMs)
    /\ UNCHANGED <<mousePosition, normalEvents, throttledEvents,
                   debouncedEvents, thLastCallTime>>

\* Pointer-move events are delivered while the bounds allow.
CanMove == moves["normal"] + moves["throttled"] + moves["debounced"] < MaxMoves

Delivered(box, e) ==
    /\ moves' = [moves EXCEPT ![box] = @ + 1]
    /\ lastEvent' = [box |-> box, e |-> e, rect |-> BoxRect[box], time |-> now]
    /\ debLastCall' = IF box = "debounced" THEN <<[time |-> now, e |-> e]>>
                                            ELSE debLastCall
    /\ UNCHANGED now

\* onMouseMove of the unthrottled box, line 69.
onMouseMoveNormal(e) ==
    /\ CanMove
    /\ handleMouseMove(e, BoxRect["normal"])
    /\ Delivered("normal", e)
    /\ UNCHANGED cloneVars

\* onMouseMove of the throttled box, line 85.
onMouseMoveThrottled(e) ==
    /\ CanMove
    /\ handleThrottledMove(e, BoxRect["throttled"])
    /\ Delivered("throttled", e)
    /\ UNCHANGED cloneVars

\* onMouseMove of the debounced box, line 101.  Within the bounds the timeout
\* it starts is due before the clock stops.
onMouseMoveDebounced(e) ==
    /\ CanMove
    /\ now + DebounceMs <= MaxTime
    /\ handleDebouncedMove(e, BoxRect["debounced"])
    /\ Delivered("debounced", e)
    /\ UNCHANGED cloneVars

\* The timeout of debounce is due: the function of lines 32-36 runs with the
\* arguments of the last call.
DebounceTimerFires ==
    /\ debTimer # <<>>
    /\ now >= debTimer[1]
    /\ debouncedEvents' = debouncedCallback(debouncedEvents, debPendingArgs[1].e,
                                            debPendingArgs[1].rect, now)
    /\ debPendingArgs' = <<>>
    /\ debTimer' = <<>>
    /\ UNCHANGED <<now, mousePosition, normalEvents, throttledEvents,
                   thLastCallTime, moves, lastEvent, debLastCall>>
    /\ UNCHANGED cloneVars

\* Time passes.  The event loop is idle between the handlers, so a timeout
\* runs when it is due: the clock does not pass it.
Tick(d) ==
    /\ now + d <= MaxTime
    /\ debTimer # <<>> => now + d <= debTimer[1]
    /\ now' = now + d
    /\ UNCHANGED <<mousePosition, normalEvents, throttledEvents,
                   debouncedEvents, thLastCallTime, debPendingArgs, debTimer,
                   moves, lastEvent, debLastCall>>
    /\ UNCHANGED cloneVars

\* The component as mounted, lines 7-10.
InitPointer ==
    /\ now = 0
    /\ mousePosition = [x |-> 0, y |-> 0]
    /\ normalEvents = <<>>
    /\ throttledEvents = <<>>
    /\ debouncedEvents = <<>>
    /\ thLastCallTime = <<>>
    /\ debPendingArgs = <<>>
    /\ debTimer = <<>>
    /\ moves = [b \in Boxes |-> 0]
    /\ lastEvent = [box |-> "none", e |-> [clientX |-> 0, clientY |-> 0],
                    rect |-> [left |-> 0, top |-> 0], time |-> 0]
    /\ debLastCall = <<>>

\* The component after a session that began 6000 ms ago, in which every box
\* has recorded n positions, one every 200 ms; the clock is read from here on.
PastEvents(n) ==
    [i \in 1..n |-> [x |-> 0, y |-> 0, time |-> (i - 31) * 200]]

InitPointerFull ==
    /\ now = 0
    /\ mousePosition = [x |-> 0, y |-> 0]
    /\ \E n \in {29, 30} :
          /\ normalEvents = PastEvents(n)
          /\ throttledEvents = PastEvents(n)
          /\ debouncedEvents = PastEvents(n)
          /\ thLastCallTime = <<PastEvents(n)[n].time>>
    /\ debPendingArgs = <<>>
    /\ debTimer = <<>>
    /\ moves = [b \in Boxes |-> 0]
    /\ lastEvent = [box |-> "none", e |-> [clientX |-> 0, clientY |-> 0],
                    rect |-> [left |-> 0, top |-> 0], time |-> 0]
    /\ debLastCall = <<>>

NextPointer ==
    \/ \E e \in PointerEvents("normal") : onMouseMoveNormal(e)
    \/ \E e \in PointerEvents("throttled") : onMouseMoveThrottled(e)
    \/ \E e \in PointerEvents("debounced") : onMouseMoveDebounced(e)
    \/ DebounceTimerFires
    \/ \E d \in Steps : Tick(d)

NextClone ==
    \/ \E key \in TestCaseKeys : SelectCase(key)
    \/ \E timings \in Timings : runPerformanceTest(timings)

Init == InitPointer /\ InitClone

Next == NextPointer \/ NextClone

\* The page: both panels.
Spec == Init /\ [][Next]_vars

\* The panels share no state: each is also explored on its own.
SpecPointer == Init /\ [][NextPointer]_vars

SpecClone == Init /\ [][NextClone]_vars

\* The pointer panel, from a session in which the lists have filled up.
InitFull == InitPointerFull /\ InitClone

SpecPointerFull == InitFull /\ [][NextPointer]_vars

\* The timeout of debounce runs once it is due, and time passes.
SpecPointerLive ==
    /\ Init
    /\ [][NextPointer]_vars
    /\ WF_vars(DebounceTimerFires)
    /\ WF_vars(\E d \in Steps : Tick(d))

(***************************************************************************)
(*                              Properties                                 *)
(***************************************************************************)

\* The clone attempt of a method, as the platform or the library makes it.
CloneAttempt(data, method) ==
    CASE method = "structured" -> structuredClone(data)
      [] method = "json"       -> JSONRoundTrip(data)
      [] method = "es-toolkit" -> cloneDeep(data)
      [] method = "lodash"     -> lodashCloneDeep(data)

\* C1: tryClone never lets an exception escape.  For the selected test case
\* (every one can be selected) and every method it returns {success: true,
\* result} when the clone attempt returns and {success: false, error} with the
\* message of the exception when it throws, and the panel of a failed method
\* shows that message and "bogsa silpae" instead of a rendered result.
C1_TryCloneCatches ==
    \A m \in MethodIds :
        LET data    == testCases[selectedCase].data
            attempt == CloneAttempt(data, m)
            call    == tryClone(data, m)
            panel   == view.results[m]
        IN  /\ call.kind = "return"
            /\ ~panel.crashed
            /\ attempt.kind = "return" =>
                  /\ call.value = [success |-> TRUE, result |-> attempt.value]
                  /\ panel.ok
            /\ attempt.kind = "throw" =>
                  /\ call.value = [success |-> FALSE, error |-> attempt.error.message]
                  /\ ~panel.ok
                  /\ panel.label = attempt.error.message
                  /\ panel.pre = [text |-> "bogsa silpae"]

\* A test case is selected for which a method fails, and its panel is shown.
C1_Witness ==
    /\ selectedCase = "circular"
    /\ ~view.results["json"].ok
    /\ view.results["lodash"].ok

\* C7: after runPerformanceTest, performanceResults is non-null and has one
\* entry for each of the four methods, each computed from 100 timed clone
\* invocations on the selected test case.
C7_BenchmarkPopulates ==
    lastClick.op = "run" =>
        /\ performanceResults # Null
        /\ DOMAIN performanceResults = {"structured", "json", "es-toolkit", "lodash"}
        /\ measuredCase = selectedCase
        /\ \A m \in DOMAIN performanceResults :
              /\ performanceResults[m].success
              /\ Len(performanceResults[m].samples) = 100
              /\ performanceResults[m].average.den = 100

\* The benchmark has run on a test case other than the initial one.
C7_Witness ==
    /\ lastClick.op = "run"
    /\ selectedCase = "large"
    /\ performanceResults # Null

\* C8: after the button of a test case is clicked, selectedCase is its key and
\* the sample data and the clone outcome of every method shown are those of
\* that case; selectedCase is always one of the seven keys and starts at
\* "simple".
C8_SelectUpdatesDisplay ==
    /\ selectedCase \in {"simple", "date", "mapSet", "circular", "function",
                         "special", "large"}
    /\ lastClick.op = "none" => selectedCase = "simple"
    /\ lastClick.op = "select" =>
          /\ selectedCase = lastClick.key
          /\ view.selected = lastClick.key
          /\ view.sample = safeStringify(testCases[lastClick.key].data)
          /\ \A m \in MethodIds : view.results[m] = renderResult(lastClick.key, m)

\* A test case other than the initial one has just been selected.
C8_Witness ==
    /\ lastClick = [op |-> "select", key |-> "mapSet"]
    /\ view.sample = [map |-> "Map(n)", set |-> "Set(n)"]

\* C9: performanceResults is null, and then nothing is shown, or it was
\* computed by a benchmark run on the selected test case; selecting a test
\* case, the current one too, resets it to null.
C9_ResultsOfSelectedCase ==
    /\ performanceResults # Null => measuredCase = selectedCase
    /\ performanceResults = Null => view.performance = Null
    /\ lastClick.op = "select" => performanceResults = Null

\* The test case the benchmark ran on has been selected again.
C9_Witness ==
    /\ lastClick.op = "select"
    /\ measuredCase = selectedCase
    /\ performanceResults = Null

\* C10: if the clone attempt of a method throws on the selected test case,
\* measurePerformance returns {success: false} for it and the benchmark panel
\* shows "cheugjeong silpae" for it.
C10_BenchmarkReportsFailure ==
    performanceResults # Null =>
        \A m \in MethodIds :
            ~tryClone(testCases[selectedCase].data, m).value.success =>
                /\ ~performanceResults[m].success
                /\ view.performance[m].failed

\* The last n entries of a list.
LastN(list, n) ==
    [i \in 1..(IF Len(list) < n THEN Len(list) ELSE n) |->
        list[i + (IF Len(list) < n THEN 0 ELSE Len(list) - n)]]

\* C2: two consecutive entries of throttledEvents were appended at least
\* 200 ms apart.
C2_ThrottledSpacing ==
    \A i \in 1..(Len(throttledEvents) - 1) :
        throttledEvents[i + 1].time - throttledEvents[i].time >= 200

\* Two positions are recorded, and a pointer-move in between or after was not.
C2_Witness ==
    /\ Len(throttledEvents) >= 2
    /\ moves["throttled"] > Len(throttledEvents)

\* C3: an entry is appended to debouncedEvents only when 200 ms have passed
\* since the most recent pointer-move in the debounced box, and never by a
\* pointer-move itself: a burst appends nothing while it lasts.
C3_DebouncedQuietPeriod ==
    [][debouncedEvents' # debouncedEvents =>
          /\ debLastCall # <<>>
          /\ now' - debLastCall[1].time >= 200
          /\ moves' = moves]_vars

\* A burst of three pointer-moves, 100 ms apart, has been recorded once.
C3_Witness ==
    /\ moves["debounced"] >= 3
    /\ Len(debouncedEvents) = 1
    /\ debouncedEvents[1].time = 400

\* C4: once the pointer-moves in the debounced box stop, a position is
\* recorded: the entry appended for a burst is one, it is appended when the
\* waiting call is taken, its coordinates are those of the last pointer-move
\* relative to the box, and after a pointer-move either another one follows
\* or that entry is eventually there.
C4_DebouncedEventuallyRecords ==
    /\ [][debouncedEvents' # debouncedEvents =>
            /\ debLastCall # <<>>
            /\ debTimer # <<>>
            /\ debTimer' = <<>>
            /\ debouncedEvents' =
                  LastN(debouncedEvents, 29) \o
                  <<[x |-> debLastCall[1].e.clientX - BoxRect["debounced"].left,
                     y |-> debLastCall[1].e.clientY - BoxRect["debounced"].top,
                     time |-> now]>>]_vars
    /\ \A n \in 1..MaxMoves :
          (moves["debounced"] = n /\ debTimer # <<>>)
             ~> \/ moves["debounced"] > n
                \/ /\ debTimer = <<>>
                   /\ debouncedEvents # <<>>
                   /\ LET last == debouncedEvents[Len(debouncedEvents)]
                      IN  /\ last.x = debLastCall[1].e.clientX - BoxRect["debounced"].left
                          /\ last.y = debLastCall[1].e.clientY - BoxRect["debounced"].top
                          /\ last.time >= debLastCall[1].time + 200

\* Two bursts have been recorded, the second one at a point off the corner.
C4_Witness ==
    /\ Len(debouncedEvents) = 2
    /\ debTimer = <<>>
    /\ debouncedEvents[2].x = 3
    /\ debouncedEvents[2].y = 5
    /\ moves["debounced"] >= 3

\* C5: each of the three lists has at most 30 entries, oldest first, and a
\* recording leaves the last 29 entries of the list followed by the new one.
C5_ListsKeepLast30 ==
    /\ [](\A list \in {normalEvents, throttledEvents, debouncedEvents} :
            /\ Len(list) <= 30
            /\ \A i \in 1..(Len(list) - 1) : list[i].time <= list[i + 1].time)
    /\ [][/\ normalEvents' # normalEvents =>
                /\ normalEvents' # <<>>
                /\ normalEvents' = LastN(normalEvents, 29) \o
                                   <<normalEvents'[Len(normalEvents')]>>
          /\ throttledEvents' # throttledEvents =>
                /\ throttledEvents' # <<>>
                /\ throttledEvents' = LastN(throttledEvents, 29) \o
                                      <<throttledEvents'[Len(throttledEvents')]>>
          /\ debouncedEvents' # debouncedEvents =>
                /\ debouncedEvents' # <<>>
                /\ debouncedEvents' = LastN(debouncedEvents, 29) \o
                                      <<debouncedEvents'[Len(debouncedEvents')]>>]_vars

\* Every list is full and its oldest entries have gone for new ones.
C5_Witness ==
    /\ Len(normalEvents) = 30 /\ normalEvents[30].time >= 0
    /\ normalEvents[1].time > 0 - 6000
    /\ Len(throttledEvents) = 30 /\ throttledEvents[30].time >= 0
    /\ throttledEvents[1].time > 0 - 6000
    /\ Len(debouncedEvents) = 30 /\ debouncedEvents[30].time >= 0
    /\ debouncedEvents[1].time > 0 - 6000

\* C6: a pointer-move in the unthrottled box appends one entry to
\* normalEvents, with the coordinates of the event relative to the box, at
\* once, and leaves throttledEvents and debouncedEvents as they are.
C6_NormalRecordsEveryMove ==
    [][moves'["normal"] # moves["normal"] =>
          /\ normalEvents' =
                LastN(normalEvents, 29) \o
                <<[x |-> lastEvent'.e.clientX - BoxRect["normal"].left,
                   y |-> lastEvent'.e.clientY - BoxRect["normal"].top,
                   time |-> now]>>
          /\ lastEvent'.box = "normal"
          /\ lastEvent'.time = now
          /\ throttledEvents' = throttledEvents
          /\ debouncedEvents' = debouncedEvents]_vars

\* Two pointer-moves at the same instant are both recorded.
C6_Witness ==
    /\ Len(normalEvents) = 2
    /\ moves["normal"] = 2
    /\ normalEvents[1].time = normalEvents[2].time
    /\ normalEvents[2].x = 3

=============================================================================
